---- MODULE Spec2Model ----
(***************************************************************************)
(* Model of src/api/rwqi.js: the RWQI request handler, its process-wide    *)
(* cache, the river resolver, the tiered upstream fetch chain with its     *)
(* per-call timer, and the record selection / index computation.           *)
(*                                                                         *)
(* Strings are sequences of one-character strings.  JavaScript values that *)
(* may be null/undefined are tagged records, so that null, a list and a    *)
(* number can be compared.  Numbers read from upstream are integers in     *)
(* tenths (70 is 7.0).  Time is counted in clock ticks.                    *)
(***************************************************************************)
EXTENDS Integers, Sequences, FiniteSets, TLC

(* ---------------------------- bounds ----------------------------------- *)
\* last instant of the clock
MaxTime == 3
\* largest number of rivers in a registry of the resolver specification
MaxRivers == 2

\* records in a list handed to pickBest on its own
MaxRows == 3
\* largest explicit ttl handed to setCache by the cache-store specification
MaxTtl == 2

(* ------------------------ program constants ---------------------------- *)
\* HTTP_TIMEOUT (rwqi.js:6), in clock ticks: one tick stands for 15000 ms
HTTP_TIMEOUT == 1
\* DEFAULT_TTL (rwqi.js:7) in clock ticks, i.e. CACHE_TTL_SECONDS = 30
DEFAULT_TTL == 2
\* DATAGOV_DATASET_IDS_GLOBAL (rwqi.js:9-11): DATAGOV_DATASET_IDS='["g1"]'
DATAGOV_DATASET_IDS_GLOBAL == <<"g1">>

(* --------------------------- JS values --------------------------------- *)
Null == [t |-> "null"]
Undef == [t |-> "undef"]
Str(s) == [t |-> "str", s |-> s]
Num(n) == [t |-> "num", n |-> n]
List(rows) == [t |-> "list", rows |-> rows]

\* JavaScript truthiness of the values the handler tests with ! and ||
\* (an object, which carries no tag, is truthy)
Truthy(v) ==
  IF "t" \notin DOMAIN v THEN TRUE
  ELSE CASE v.t = "null" -> FALSE
         [] v.t = "undef" -> FALSE
         [] v.t = "str" -> v.s # <<>>
         [] v.t = "num" -> v.n # 0
         [] OTHER -> TRUE

\* x?.length is a non-zero number
HasLength(v) ==
  CASE v.t = "list" -> Len(v.rows) > 0
    [] v.t = "str" -> Len(v.s) > 0
    [] OTHER -> FALSE

(* ---------------------------- strings ---------------------------------- *)
UpperToLower ==
  [A |-> "a", G |-> "g", N |-> "n", S |-> "s", Y |-> "y", M |-> "m",
   U |-> "u", E |-> "e", Z |-> "z"]

toLowerCaseChar(c) == IF c \in DOMAIN UpperToLower THEN UpperToLower[c] ELSE c

toLowerCase(s) == [i \in 1..Len(s) |-> toLowerCaseChar(s[i])]

IsSpace(c) == c \in {" ", "\t"}

RECURSIVE trimStart(_)
trimStart(s) ==
  IF s # <<>> /\ IsSpace(Head(s)) THEN trimStart(Tail(s)) ELSE s

RECURSIVE trimEnd(_)
trimEnd(s) ==
  IF s # <<>> /\ IsSpace(s[Len(s)]) THEN trimEnd(SubSeq(s, 1, Len(s) - 1)) ELSE s

\* a trim that strips nothing
trim_keepsSpaces(s) == s

trim(s) == trimEnd(trimStart(s))

\* String.prototype.includes
includes(hay, needle) ==
  \E i \in 0..(Len(hay) - Len(needle)) :
    SubSeq(hay, i + 1, i + Len(needle)) = needle

(* ------------------------ river registry ------------------------------- *)
\* data/rivers.json as loadRivers returns it: an ordered list of rivers
Rivers ==
  << [id |-> <<"g","a","n","g","a">>,
      name |-> <<"G","a","n","g","a">>,
      aliases |-> << <<"G","a","n","g","e","s">> >>,
      dataset_ids |-> <<"d1", "d2">>],
     [id |-> <<"y","a","m","u","n","a">>,
      name |-> <<"Y","a","m","u","n","a">>,
      aliases |-> <<>>,
      dataset_ids |-> <<>>] >>

loadRivers == Rivers

NoRiver == 0

\* Array.prototype.find: of the registry indices I that satisfy the test,
\* the first one, NoRiver when there is none
Find(I) ==
  IF I = {} THEN NoRiver ELSE CHOOSE i \in I : \A j \in I : i <= j

\* a findRiver that looks for a substring match before it looks at the aliases
findRiver_substringFirst(rs, q) ==
  IF q = <<>> THEN NoRiver
  ELSE
    LET low == trim(toLowerCase(q))
        ByIdOrName ==
          {i \in 1..Len(rs) : rs[i].id = low \/ toLowerCase(rs[i].name) = low}
        ByAlias ==
          {i \in 1..Len(rs) :
             \E a \in 1..Len(rs[i].aliases) : toLowerCase(rs[i].aliases[a]) = low}
        BySubstring ==
          {i \in 1..Len(rs) :
             \/ includes(toLowerCase(rs[i].name), low)
             \/ \E a \in 1..Len(rs[i].aliases) :
                  includes(toLowerCase(rs[i].aliases[a]), low)}
    IN IF Find(ByIdOrName) # NoRiver THEN Find(ByIdOrName)
       ELSE IF Find(BySubstring) # NoRiver THEN Find(BySubstring)
       ELSE Find(ByAlias)

\* findRiver on registry rs: the index of the river returned, NoRiver for null
findRiver(rs, q) ==
  IF q = <<>> THEN NoRiver
  ELSE
    LET low == trim(toLowerCase(q))
        ByIdOrName ==
          {i \in 1..Len(rs) : rs[i].id = low \/ toLowerCase(rs[i].name) = low}
        ByAlias ==
          {i \in 1..Len(rs) :
             \E a \in 1..Len(rs[i].aliases) : toLowerCase(rs[i].aliases[a]) = low}
        BySubstring ==
          {i \in 1..Len(rs) :
             \/ includes(toLowerCase(rs[i].name), low)
             \/ \E a \in 1..Len(rs[i].aliases) :
                  includes(toLowerCase(rs[i].aliases[a]), low)}
    IN IF Find(ByIdOrName) # NoRiver THEN Find(ByIdOrName)
       ELSE IF Find(ByAlias) # NoRiver THEN Find(ByAlias)
       ELSE Find(BySubstring)

(* ----------------------------- cache ----------------------------------- *)
\* a cacheKey that is the same for every river
cacheKey_ignoresId(river) == <<"rwqi::">>

\* "rwqi::" + river.id (line 200)
cacheKey(river) == <<"rwqi::">> \o river.id

Keys == {cacheKey(Rivers[i]) : i \in 1..Len(Rivers)}

NoEntry == [absent |-> TRUE]

\* setCache(k, v, ttl) at instant t on the map c
setCache(c, k, v, ttl, t) ==
  [c EXCEPT ![k] = [v |-> v, expires |-> t + ttl]]

\* a getCache that already expires an entry at the instant `expires`
getCache_expiresEarly(c, k, t) ==
  LET z == c[k]
  IN IF z = NoEntry THEN [cache |-> c, v |-> Null]
     ELSE IF t >= z.expires THEN [cache |-> [c EXCEPT ![k] = NoEntry], v |-> Null]
     ELSE [cache |-> c, v |-> z.v]

\* a getCache that renews the expiry of the entry it hits
getCache_renewsOnHit(c, k, t) ==
  LET z == c[k]
  IN IF z = NoEntry THEN [cache |-> c, v |-> Null]
     ELSE IF t > z.expires THEN [cache |-> [c EXCEPT ![k] = NoEntry], v |-> Null]
     ELSE [cache |-> [c EXCEPT ![k] = [v |-> z.v, expires |-> t + DEFAULT_TTL]],
           v |-> z.v]

\* a getCache that leaves the expired entry in the map
getCache_keepsExpired(c, k, t) ==
  LET z == c[k]
  IN IF z = NoEntry THEN [cache |-> c, v |-> Null]
     ELSE IF t > z.expires THEN [cache |-> c, v |-> Null]
     ELSE [cache |-> c, v |-> z.v]

\* getCache(k) at instant t on the map c: the map afterwards and the value
getCache(c, k, t) ==
  LET z == c[k]
  IN IF z = NoEntry THEN [cache |-> c, v |-> Null]
     ELSE IF t > z.expires THEN [cache |-> [c EXCEPT ![k] = NoEntry], v |-> Null]
     ELSE [cache |-> c, v |-> z.v]

(* ---------------------- numeric coercion -------------------------------- *)
DigitChars == <<"0", "1", "2", "3", "4", "5", "6", "7", "8", "9">>

IsDigit(c) == \E d \in 1..10 : DigitChars[d] = c

DigitVal(c) == (CHOOSE d \in 1..10 : DigitChars[d] = c) - 1

RECURSIVE Pow10(_)
Pow10(e) == IF e <= 0 THEN 1 ELSE 10 * Pow10(e - 1)

RECURSIVE NatToString(_)
NatToString(n) ==
  IF n < 10 THEN <<DigitChars[n + 1]>>
  ELSE NatToString(n \div 10) \o <<DigitChars[(n % 10) + 1]>>

Abs(n) == IF n < 0 THEN 0 - n ELSE n

\* String(v) of a number held in tenths
NumberToString(n) ==
  (IF n < 0 THEN <<"-">> ELSE <<>>)
    \o NatToString(Abs(n) \div 10)
    \o (IF Abs(n) % 10 = 0 THEN <<>> ELSE <<".", DigitChars[(Abs(n) % 10) + 1]>>)

\* String(v)
String(v) == IF v.t = "num" THEN NumberToString(v.n) ELSE v.s

\* the characters /[^0-9.\-eE]/g leaves in place
Kept(c) == IsDigit(c) \/ c \in {".", "-", "e", "E"}

\* s.replace(/[^0-9.\-eE]/g, "")
RECURSIVE StripNonNumeric(_)
StripNonNumeric(s) ==
  IF s = <<>> THEN <<>>
  ELSE (IF Kept(Head(s)) THEN <<Head(s)>> ELSE <<>>) \o StripNonNumeric(Tail(s))

\* number of leading digits of s
RECURSIVE LeadingDigits(_)
LeadingDigits(s) ==
  IF s # <<>> /\ IsDigit(Head(s)) THEN 1 + LeadingDigits(Tail(s)) ELSE 0

RECURSIVE DigitsValue(_)
DigitsValue(s) ==
  IF s = <<>> THEN 0 ELSE 10 * DigitsValue(SubSeq(s, 1, Len(s) - 1)) + DigitVal(s[Len(s)])

Drop(s, k) == SubSeq(s, k + 1, Len(s))

NaN == [t |-> "nan"]
Infinity == [t |-> "inf"]

\* Number(s) for a string s over the kept characters: the value in tenths
\* (fractions of a tenth are cut off), NaN when s is no numeric literal,
\* Infinity when the literal exceeds the double range (about 1e308).
\* The literal is read from left to right: sign, integer digits, fraction,
\* exponent.

\* the value of the digits int.frac times ten to the ex
Scale(int, frac, ex) ==
  IF DigitsValue(int \o frac) # 0 /\ ex + Len(int) - 1 > 308 THEN Infinity
  ELSE IF ex - Len(frac) + 1 >= 0
  THEN Num(DigitsValue(int \o frac) * Pow10(ex - Len(frac) + 1))
  ELSE Num(DigitsValue(int \o frac) \div Pow10(Len(frac) - ex - 1))

\* the digits s of the exponent, which is negative if eneg
ExponentDigits(int, frac, eneg, s) ==
  IF s = <<>> \/ LeadingDigits(s) # Len(s) THEN NaN
  ELSE Scale(int, frac, IF eneg THEN 0 - DigitsValue(s) ELSE DigitsValue(s))

\* what follows the mantissa int.frac: nothing, or an exponent
Exponent(int, frac, s) ==
  IF Len(int) + Len(frac) = 0 THEN NaN
  ELSE IF s = <<>> THEN Scale(int, frac, 0)
  ELSE IF Head(s) \notin {"e", "E"} THEN NaN
  ELSE IF Tail(s) # <<>> /\ Head(Tail(s)) = "-"
  THEN ExponentDigits(int, frac, TRUE, Tail(Tail(s)))
  ELSE ExponentDigits(int, frac, FALSE, Tail(s))

\* what follows the integer digits int: a fraction, or what follows the mantissa
Fraction(int, s) ==
  IF s # <<>> /\ Head(s) = "."
  THEN Exponent(int, SubSeq(s, 2, 1 + LeadingDigits(Tail(s))),
                Drop(s, 1 + LeadingDigits(Tail(s))))
  ELSE Exponent(int, <<>>, s)

\* the literal after its sign
Unsigned(s) == Fraction(SubSeq(s, 1, LeadingDigits(s)), Drop(s, LeadingDigits(s)))

Negate(v) == IF v.t = "num" THEN Num(0 - v.n) ELSE v

Number(s) ==
  IF s = <<>> THEN Num(0)
  ELSE IF Head(s) = "-" THEN Negate(Unsigned(Tail(s)))
  ELSE Unsigned(s)

\* Number.isFinite(n) ? n : null
FiniteOrNull(n) == IF n.t = "num" THEN n ELSE Null

\* tryNum
tryNum(v) ==
  IF v.t \in {"null", "undef"} THEN Null
  ELSE FiniteOrNull(Number(StripNonNumeric(String(v))))

(* ------------------ normalisation and selection ------------------------ *)
Fields ==
  {"DO", "Dissolved Oxygen", "BOD", "Biochemical Oxygen Demand", "pH",
   "total_coliform", "Total Coliform", "date", "timestamp"}

Params == <<"DO", "BOD", "pH", "Coliforms">>

\* a raw record: a JSON object with the given fields, every other field undefined
Row(given) ==
  [t |-> "row",
   f |-> [x \in Fields |-> IF x \in DOMAIN given THEN given[x] ELSE Undef]]

\* a || b
Or(a, b) == IF Truthy(a) THEN a ELSE b

\* reading a property of row throws a TypeError
Throws(row) == row.t \in {"null", "undef"}

\* mapRecord
mapRecord(row) ==
  [DO |-> tryNum(Or(row.f["DO"], row.f["Dissolved Oxygen"])),
   BOD |-> tryNum(Or(row.f["BOD"], row.f["Biochemical Oxygen Demand"])),
   pH |-> tryNum(Or(row.f["pH"], row.f["pH"])),
   Coliforms |-> tryNum(Or(row.f["total_coliform"], row.f["Total Coliform"])),
   timestamp |-> Or(Or(row.f["date"], row.f["timestamp"]), Null)]

\* the completeness score pickBest counts for a normalized sample
Completeness(r) ==
  Cardinality({k \in 1..Len(Params) : r[Params[k]].t \notin {"null", "undef"}})

RECURSIVE pickBestFrom(_, _, _, _)

\* a pickBestFrom that keeps the last of the most complete samples
pickBestFrom_lastAmongTies(rs, i, best, score) ==
  IF i > Len(rs) THEN best
  ELSE IF Completeness(rs[i]) >= score
  THEN pickBestFrom(rs, i + 1, rs[i], Completeness(rs[i]))
  ELSE pickBestFrom(rs, i + 1, best, score)

\* the loop of pickBest over the normalized samples rs from sample i on, with
\* the best sample and score so far
pickBestFrom(rs, i, best, score) ==
  IF i > Len(rs) THEN best
  ELSE IF Completeness(rs[i]) > score
  THEN pickBestFrom(rs, i + 1, rs[i], Completeness(rs[i]))
  ELSE pickBestFrom(rs, i + 1, best, score)

\* pickBest (on rows none of which throws)
pickBest(rows) ==
  pickBestFrom([i \in 1..Len(rows) |-> mapRecord(rows[i])], 1, Null, 0 - 1)

\* records.map(mapRecord) throws
pickBestThrows(rows) == \E i \in 1..Len(rows) : Throws(rows[i])

(* ------------------------ index calculator ----------------------------- *)
\* WQ_CONFIG.weights, in hundredths
Weights == [DO |-> 30, BOD |-> 25, pH |-> 15, Coliforms |-> 20, Others |-> 10]

\* WQ_CONFIG.thresholds, in tenths
Thresholds ==
  [DO |-> [excellent |-> 60, good |-> 50, moderate |-> 40, poor |-> 20],
   BOD |-> [excellent |-> 20, good |-> 30, moderate |-> 50, poor |-> 60],
   pH |-> [min |-> 65, max |-> 85],
   Coliforms |-> [excellent |-> 500, good |-> 5000, moderate |-> 50000]]

\* a sub-index is held in thirds of a point: Sub(300) is 100
Sub(n) == [t |-> "num", n |-> n]

Min2(a, b) == IF a < b THEN a ELSE b
Max2(a, b) == IF a > b THEN a ELSE b

\* Math.log10(x) * 20 in thirds of a point, x = (v + 10) / 10 > 0 in tenths;
\* exact when x is a power of ten, cut to the power of ten below otherwise
RECURSIVE Log10Times20(_)
Log10Times20(x) ==
  IF x >= 100 THEN 60 + Log10Times20(x \div 10)
  ELSE IF x >= 10 THEN 0
  ELSE (0 - 60) + Log10Times20(x * 10)

\* paramIndex: Null for an absent value, else the sub-index in thirds,
\* Infinity or NaN
paramIndex(param, value) ==
  IF value.t \in {"null", "undef"} THEN Null
  ELSE
    LET v == value.n
        t == Thresholds
    IN CASE param = "DO" ->
              \* (v/10) / (excellent/10) * 100, in thirds
              Sub(Min2(300, (v * 300) \div t.DO.excellent))
         [] param = "BOD" ->
              Sub(Max2(0, 300 - (v * 300) \div (t.BOD.moderate * 2)))
         [] param = "pH" ->
              IF v >= t.pH.min /\ v <= t.pH.max THEN Sub(300)
              ELSE Sub(Max2(0, 300 - Abs(v - 75) * 6))
         [] param = "Coliforms" ->
              IF v + 10 < 0 THEN NaN
              ELSE IF v + 10 = 0 THEN Infinity
              ELSE Sub(Max2(0, 300 - Log10Times20(v + 10)))

\* Math.round(x * 10) / 10 of a value held in units of 1/den: the tenths
RoundTenths(num, den) == (20 * num + den) \div (2 * den)

\* Math.round(v * 10) / 10 of a number, NaN or Infinity held in units of 1/den
Round1(v, den) == IF v.t = "num" THEN Num(RoundTenths(v.n, den)) ELSE v

\* a + b
Plus(a, b) ==
  IF a.t = "nan" \/ b.t = "nan" THEN NaN
  ELSE IF a.t = "inf" \/ b.t = "inf" THEN Infinity
  ELSE Num(a.n + b.n)

\* a * w for a weight w > 0
Times(a, w) == IF a.t = "num" THEN Num(a.n * w) ELSE a

\* score >= th, which is false of NaN
GreaterEq(score, th) == score.t = "inf" \/ (score.t = "num" /\ score.n >= th)

\* a Category whose "Good" starts above 75
Category_goodAbove75(score) ==
  IF GreaterEq(score, 900) THEN "Excellent"
  ELSE IF GreaterEq(score, 751) THEN "Good"
  ELSE IF GreaterEq(score, 500) THEN "Moderate"
  ELSE IF GreaterEq(score, 250) THEN "Poor"
  ELSE "Bad"

\* the category of a score held in tenths (lines 180-184)
Category(score) ==
  IF GreaterEq(score, 900) THEN "Excellent"
  ELSE IF GreaterEq(score, 750) THEN "Good"
  ELSE IF GreaterEq(score, 500) THEN "Moderate"
  ELSE IF GreaterEq(score, 250) THEN "Poor"
  ELSE "Bad"

\* lines 179-186: the result for the rounded score
Scored(sub, score) ==
  [rwqi |-> score, category |-> [t |-> "cat", c |-> Category(score)],
   subindices |-> sub]

\* lines 177-186: n is held in thirds of a point times hundredths, d in
\* hundredths
Result(sub, n, d) ==
  IF d = 0 THEN [rwqi |-> Null, category |-> Null, subindices |-> sub]
  ELSE Scored(sub, Round1(n, 3 * d))

\* the loop of lines 169-176 from parameter i on, with sub, n and d so far
RECURSIVE computeFrom(_, _, _, _, _)

\* an addParam that counts the weight of an absent parameter too
addParam_weighsAbsent(p, i, sub, n, d, si) ==
  IF si = Null THEN computeFrom(p, i + 1, sub, n, d + Weights[Params[i]])
  ELSE computeFrom(p, i + 1, (Params[i] :> Round1(si, 3)) @@ sub,
                   Plus(n, Times(si, Weights[Params[i]])),
                   d + Weights[Params[i]])

\* lines 171-175 for parameter i, whose sub-index is si
addParam(p, i, sub, n, d, si) ==
  IF si = Null THEN computeFrom(p, i + 1, sub, n, d)
  ELSE computeFrom(p, i + 1, (Params[i] :> Round1(si, 3)) @@ sub,
                   Plus(n, Times(si, Weights[Params[i]])),
                   d + Weights[Params[i]])

computeFrom(p, i, sub, n, d) ==
  IF i > Len(Params) THEN Result(sub, n, d)
  ELSE addParam(p, i, sub, n, d, paramIndex(Params[i], p[Params[i]]))

\* computeRWQI on a normalized sample p
computeRWQI(p) == computeFrom(p, 1, <<>>, Num(0), 0)

(* --------------------- upstream catalog answers ------------------------ *)
\* two well-formed raw records: the second is the more complete one
GoodRows ==
  << Row([pH |-> Str(<<"7", ".", "0">>)]),
     Row([DO |-> Num(60), BOD |-> Str(<<"2", " ", "m", "g">>)]) >>

\* a record list whose first element is JSON null
BadRows == << Null >>

\* the JSON bodies the catalog may deliver: null, or an object whose
\* "records" and "data" keys are missing or hold a list
JsonBodies ==
  {Null,
   [t |-> "obj", records |-> Undef, data |-> Undef],
   [t |-> "obj", records |-> Undef, data |-> List(GoodRows)],
   [t |-> "obj", records |-> List(<<>>), data |-> Undef],
   [t |-> "obj", records |-> List(<<>>), data |-> List(GoodRows)],
   [t |-> "obj", records |-> List(GoodRows), data |-> Undef],
   [t |-> "obj", records |-> List(BadRows), data |-> Undef]}

\* what fetchRecordsFromDataGovByResource returns once the body parsed to j
\* (reading j.records of null throws and is caught)
resourceResult(j) ==
  IF j = Null THEN Null ELSE Or(Or(j.records, j.data), Null)

\* what one round of the loop of searchDataGovCatalog yields once the body
\* parsed to j: the records it returns, Null when the loop goes on
catalogResult(j) ==
  IF j = Null THEN Null
  ELSE IF HasLength(j.records) THEN j.records ELSE Null

(* ------------------------- the fallback chain -------------------------- *)
Call(tier, idx) == [tier |-> tier, idx |-> idx]
NoCall == [tier |-> 0, idx |-> 0]

\* number of queries searchDataGovCatalog issues at most (its urls array)
CatalogUrls == <<"river_name", "station_name">>

\* handler from line 220 on: the catalog search, if records is falsy
afterTier2(river, recs) ==
  IF ~Truthy(recs) THEN [next |-> Call(3, 1), records |-> recs]
  ELSE [next |-> NoCall, records |-> recs]

\* handler from line 213 on: the global dataset ids, if records is falsy
afterTier1(river, recs) ==
  IF ~Truthy(recs) /\ Len(DATAGOV_DATASET_IDS_GLOBAL) > 0
  THEN [next |-> Call(2, 1), records |-> recs]
  ELSE afterTier2(river, recs)

\* handler lines 204-211: records = null, then the river's own dataset ids
startChain(river) ==
  IF Len(river.dataset_ids) > 0 THEN [next |-> Call(1, 1), records |-> Null]
  ELSE afterTier1(river, Null)

\* an afterCall whose loop over the river's dataset ids has no break
afterCall_noBreak(river, call, x) ==
  CASE call.tier = 1 ->
         IF call.idx < Len(river.dataset_ids)
         THEN [next |-> Call(1, call.idx + 1), records |-> x]
         ELSE afterTier1(river, x)
    [] call.tier = 2 ->
         IF ~HasLength(x) /\ call.idx < Len(DATAGOV_DATASET_IDS_GLOBAL)
         THEN [next |-> Call(2, call.idx + 1), records |-> x]
         ELSE afterTier2(river, x)
    [] call.tier = 3 ->
         IF ~HasLength(x) /\ call.idx < Len(CatalogUrls)
         THEN [next |-> Call(3, call.idx + 1), records |-> Null]
         ELSE [next |-> NoCall, records |-> x]

\* an afterCall that repeats the first catalog query when the second one
\* brought nothing
afterCall_retriesCatalog(river, call, x) ==
  CASE call.tier = 1 ->
         IF ~HasLength(x) /\ call.idx < Len(river.dataset_ids)
         THEN [next |-> Call(1, call.idx + 1), records |-> x]
         ELSE afterTier1(river, x)
    [] call.tier = 2 ->
         IF ~HasLength(x) /\ call.idx < Len(DATAGOV_DATASET_IDS_GLOBAL)
         THEN [next |-> Call(2, call.idx + 1), records |-> x]
         ELSE afterTier2(river, x)
    [] call.tier = 3 ->
         IF ~HasLength(x)
         THEN [next |-> Call(3, IF call.idx < Len(CatalogUrls)
                                THEN call.idx + 1 ELSE 1),
               records |-> Null]
         ELSE [next |-> NoCall, records |-> x]

\* the handler resumes after the call `call` returned x: the next call it
\* awaits (NoCall when the chain is over) and the value of `records`
afterCall(river, call, x) ==
  CASE call.tier = 1 ->
         IF ~HasLength(x) /\ call.idx < Len(river.dataset_ids)
         THEN [next |-> Call(1, call.idx + 1), records |-> x]
         ELSE afterTier1(river, x)
    [] call.tier = 2 ->
         IF ~HasLength(x) /\ call.idx < Len(DATAGOV_DATASET_IDS_GLOBAL)
         THEN [next |-> Call(2, call.idx + 1), records |-> x]
         ELSE afterTier2(river, x)
    [] call.tier = 3 ->
         IF ~HasLength(x) /\ call.idx < Len(CatalogUrls)
         THEN [next |-> Call(3, call.idx + 1), records |-> Null]
         ELSE [next |-> NoCall, records |-> x]

\* the record lists a catalog answer may carry
UpstreamLists ==
  {j.records : j \in {b \in JsonBodies : b # Null /\ b.records.t = "list"}}
    \cup {j.data : j \in {b \in JsonBodies : b # Null /\ b.data.t = "list"}}

\* handler lines 230-231 when pickBest returned params
Sample(params) ==
  [throws |-> FALSE, params |-> params, result |-> computeRWQI(params)]

\* handler lines 230-231 on the record list x: whether pickBest throws (a
\* null row) or computeRWQI does (no sample), else the sample and its index
Compute(x) ==
  IF pickBestThrows(x.rows) \/ x.rows = <<>> THEN [throws |-> TRUE]
  ELSE Sample(pickBest(x.rows))

\* Compute tabulated over the record lists of S, so as to be evaluated once
RECURSIVE ComputedOn(_)
ComputedOn(S) ==
  IF S = {} THEN <<>>
  ELSE LET x == CHOOSE y \in S : TRUE
       IN (x :> Compute(x)) @@ ComputedOn(S \ {x})

Computed == ComputedOn(UpstreamLists)

\* handler lines 233-240: the body answered for a computed sample
okBody(river, cm) ==
  [river |-> river.name, rwqi |-> cm.result.rwqi,
   category |-> cm.result.category, subindices |-> cm.result.subindices,
   parameters |-> cm.params, status |-> "ok"]

\* a cacheAndAnswer that leaves alone an entry written meanwhile
cacheAndAnswer_keepsEntry(c, river, out, t) ==
  IF c[cacheKey(river)] # NoEntry /\ t <= c[cacheKey(river)].expires
  THEN [cache |-> c, code |-> 200, body |-> out, set |-> FALSE]
  ELSE [cache |-> setCache(c, cacheKey(river), out, DEFAULT_TTL, t),
        code |-> 200, body |-> out, set |-> TRUE]

\* handler lines 226-227 and 242-243: the body out is cached and answered
cacheAndAnswer(c, river, out, t) ==
  [cache |-> setCache(c, cacheKey(river), out, DEFAULT_TTL, t),
   code |-> 200, body |-> out, set |-> TRUE]

\* handler lines 244-246: the catch answers 500, the cache untouched
answerError(c) ==
  [cache |-> c, code |-> 500,
   body |-> [status |-> "error", message |-> "TypeError"], set |-> FALSE]

\* handler lines 230-246 on what the records computed to
finishComputed(c, river, cm, t) ==
  IF cm.throws THEN answerError(c)
  ELSE cacheAndAnswer(c, river, okBody(river, cm), t)

\* a finish that does not cache the coming_soon result
finish_forgetsComingSoon(c, river, recs, t) ==
  IF ~HasLength(recs)
  THEN [cache |-> c, code |-> 200,
        body |-> [river |-> river.name, status |-> "coming_soon"],
        set |-> FALSE]
  ELSE finishComputed(c, river, Computed[recs], t)

\* a finish that caches the error it answers with
finish_cachesError(c, river, recs, t) ==
  IF ~HasLength(recs)
  THEN cacheAndAnswer(c, river,
                      [river |-> river.name, status |-> "coming_soon"], t)
  ELSE IF Computed[recs].throws
  THEN [cache |-> setCache(c, cacheKey(river),
                           [status |-> "error", message |-> "TypeError"],
                           DEFAULT_TTL, t),
        code |-> 500,
        body |-> [status |-> "error", message |-> "TypeError"], set |-> TRUE]
  ELSE finishComputed(c, river, Computed[recs], t)

\* handler lines 224-246 at instant t: the response and the cache afterwards
finish(c, river, recs, t) ==
  IF ~HasLength(recs)
  THEN cacheAndAnswer(c, river,
                      [river |-> river.name, status |-> "coming_soon"], t)
  ELSE finishComputed(c, river, Computed[recs], t)

(* ------------------------------ state ---------------------------------- *)
VARIABLES
  cache,      \* the Map of rwqi.js:28: key -> entry or NoEntry
  now,        \* Date.now(), in ticks
  pc,         \* per request: "idle", "headers" (awaiting fetch), "body"
              \* (awaiting r.json()), "done"
  query,      \* per request: req.query.river
  river,      \* per request: the river findRiver returned (index), NoRiver
  pos,        \* per request: the upstream call in flight
  records,    \* per request: the handler's variable `records`
  elapsed,    \* per request: ticks since the call in flight was issued
  notOk,      \* per request: the response being read has r.ok = false
  response,   \* per request: the response sent
  nresp,      \* per request: number of responses sent
  calls,      \* per request: the upstream calls issued so far, in order
  settled,    \* per request: the upstream calls that have returned to the
              \* handler, in order
  src,        \* per request: the first call that returned a non-empty
              \* record list, whether its response was a success, the list
  wrote,      \* per request: number of setCache calls made
  first200,   \* per key: the first request answered 200 for the key
  store,      \* cache-store specification: the last operation and the sets
  eval        \* pure-function specifications: the function last evaluated,
              \* its arguments and what it returned

vars ==
  <<cache, now, pc, query, river, pos, records, elapsed, notOk, response,
    nresp, calls, settled, src, wrote, first200, store, eval>>

\* the requests the model follows: two handler invocations, which may
\* overlap or run one after the other; request 1 is the one that arrives first
Reqs == {1, 2}

\* req.query.river of the requests: missing, blank, the first river by name
\* and by alias, the second river by a part of its name, an unknown name
Queries ==
  {Undef,
   Str(<<" ", " ">>),
   Str(<<" ", "G", "a", "n", "g", "a", " ">>),
   Str(<<"G", "A", "N", "G", "E", "S">>),
   Str(<<"y", "a", "m">>),
   Str(<<"z", "z">>)}

\* handler lines 194 and 197 on req.query.river = qv: q and the river
Resolve(qv) ==
  LET q == trim(String(Or(qv, Str(<<>>))))
  IN [q |-> q, river |-> findRiver(loadRivers, q)]

\* Resolve tabulated over the queries of S, so as to be evaluated once
RECURSIVE ResolvedOn(_)
ResolvedOn(S) ==
  IF S = {} THEN <<>>
  ELSE LET x == CHOOSE y \in S : TRUE
       IN (x :> Resolve(x)) @@ ResolvedOn(S \ {x})

Resolved == ResolvedOn(Queries)

NoResp == [code |-> 0]
NoSrc == [tier |-> 0]
NoFirst == [by |-> 0]

InFlight(r) == pc[r] \in {"headers", "body"}

Init ==
  /\ cache = [k \in Keys |-> NoEntry]
  /\ now = 0
  /\ pc = [r \in Reqs |-> "idle"]
  /\ query = [r \in Reqs |-> Undef]
  /\ river = [r \in Reqs |-> NoRiver]
  /\ pos = [r \in Reqs |-> NoCall]
  /\ records = [r \in Reqs |-> Null]
  /\ elapsed = [r \in Reqs |-> 0]
  /\ notOk = [r \in Reqs |-> FALSE]
  /\ response = [r \in Reqs |-> NoResp]
  /\ nresp = [r \in Reqs |-> 0]
  /\ calls = [r \in Reqs |-> <<>>]
  /\ settled = [r \in Reqs |-> <<>>]
  /\ src = [r \in Reqs |-> NoSrc]
  /\ wrote = [r \in Reqs |-> 0]
  /\ first200 = [k \in Keys |-> NoFirst]
  /\ store = [op |-> [kind |-> "init"], lastSet |-> [k \in Keys |-> NoEntry]]
  /\ eval = [fn |-> "none"]

(* ------------------------- handler steps ------------------------------- *)
\* res.status(code).json(body) of request r, which had sent n responses:
\* the handler returns
Respond(r, code, body, n) ==
  /\ response' = [response EXCEPT ![r] = [code |-> code, body |-> body]]
  /\ nresp' = [nresp EXCEPT ![r] = n + 1]
  /\ pc' = [pc EXCEPT ![r] = "done"]
  /\ pos' = [pos EXCEPT ![r] = NoCall]
  /\ elapsed' = [elapsed EXCEPT ![r] = 0]
  /\ notOk' = [notOk EXCEPT ![r] = FALSE]

\* the 200 answer for key k is remembered if it is the first one
Note200(r, k, code, body) ==
  first200' = IF code = 200 /\ first200[k] = NoFirst
              THEN [first200 EXCEPT ![k] = [by |-> r, at |-> now, v |-> body]]
              ELSE first200

\* timeoutFetch is entered for the call c, the calls before it being
\* `prior`: the timer is armed, fetch awaited
Issue(r, c, recs, prior) ==
  /\ pc' = [pc EXCEPT ![r] = "headers"]
  /\ pos' = [pos EXCEPT ![r] = c]
  /\ elapsed' = [elapsed EXCEPT ![r] = 0]
  /\ notOk' = [notOk EXCEPT ![r] = FALSE]
  /\ records' = [records EXCEPT ![r] = recs]
  /\ calls' = [calls EXCEPT ![r] = Append(prior, c)]

\* the handler goes on from the chain state st: the next call, or the end
Continue(r, st) ==
  IF st.next # NoCall
  THEN /\ Issue(r, st.next, st.records, calls[r])
       /\ UNCHANGED <<response, nresp, wrote, first200>>
  ELSE LET f == finish(cache, Rivers[river[r]], st.records, now)
       IN /\ cache' = f.cache
          /\ records' = [records EXCEPT ![r] = st.records]
          /\ wrote' = [wrote EXCEPT ![r] = IF f.set THEN @ + 1 ELSE @]
          /\ Respond(r, f.code, f.body, nresp[r])
          /\ Note200(r, cacheKey(Rivers[river[r]]), f.code, f.body)
          /\ UNCHANGED calls

\* the call in flight of request r returned x to the handler
Returned(r, x, ok) ==
  LET st == afterCall(Rivers[river[r]], pos[r], x)
  IN /\ src' = [src EXCEPT ![r] =
                  IF HasLength(x) /\ @ = NoSrc
                  THEN [tier |-> pos[r].tier, idx |-> pos[r].idx, ok |-> ok, x |-> x]
                  ELSE @]
     /\ settled' = [settled EXCEPT ![r] = Append(@, pos[r])]
     /\ IF st.next # NoCall THEN cache' = cache ELSE TRUE
     /\ Continue(r, st)
     /\ UNCHANGED <<now, query, river, store, eval>>

\* a request with req.query.river = qv arrives at invocation r, and the
\* handler runs from its entry to its first await (lines 189-208)
Arrive(r, qv) ==
  /\ pc[r] = "idle"
  /\ IF r = 1 THEN TRUE ELSE pc[1] # "idle"
  /\ query' = [query EXCEPT ![r] = qv]
  /\ src' = [src EXCEPT ![r] = NoSrc]
  /\ settled' = [settled EXCEPT ![r] = <<>>]
  /\ wrote' = [wrote EXCEPT ![r] = 0]
  /\ LET q == Resolved[qv].q
         rv == Resolved[qv].river
     IN IF q = <<>>
        THEN /\ Respond(r, 400, [status |-> "error", message |-> "river query required"], 0)
             /\ river' = [river EXCEPT ![r] = NoRiver]
             /\ records' = [records EXCEPT ![r] = Null]
             /\ calls' = [calls EXCEPT ![r] = <<>>]
             /\ UNCHANGED <<cache, first200>>
        ELSE IF rv = NoRiver
        THEN /\ Respond(r, 404, [status |-> "error", message |-> "unknown river"], 0)
             /\ river' = [river EXCEPT ![r] = NoRiver]
             /\ records' = [records EXCEPT ![r] = Null]
             /\ calls' = [calls EXCEPT ![r] = <<>>]
             /\ UNCHANGED <<cache, first200>>
        ELSE LET k == cacheKey(Rivers[rv])
                 g == getCache(cache, k, now)
             IN /\ river' = [river EXCEPT ![r] = rv]
                /\ cache' = g.cache
                /\ IF Truthy(g.v)
                   THEN /\ Respond(r, 200, g.v, 0)
                        /\ Note200(r, k, 200, g.v)
                        /\ records' = [records EXCEPT ![r] = Null]
                        /\ calls' = [calls EXCEPT ![r] = <<>>]
                   ELSE LET st == startChain(Rivers[rv])
                        IN /\ Issue(r, st.next, st.records, <<>>)
                           /\ response' = [response EXCEPT ![r] = NoResp]
                           /\ nresp' = [nresp EXCEPT ![r] = 0]
                           /\ UNCHANGED first200
  /\ UNCHANGED <<now, store, eval>>

\* the response headers of the call in flight arrive with r.ok = ok:
\* timeoutFetch clears the timer; a dataset-id lookup throws on !r.ok
HeadersArrive(r, ok) ==
  /\ pc[r] = "headers"
  /\ IF pos[r].tier \in {1, 2} /\ ~ok
     THEN Returned(r, Null, ok)
     ELSE /\ pc' = [pc EXCEPT ![r] = "body"]
          /\ notOk' = [notOk EXCEPT ![r] = ~ok]
          /\ UNCHANGED <<cache, now, query, river, pos, records, elapsed,
                         response, nresp, calls, settled, src, wrote, first200, store, eval>>

\* fetch rejects with a network error before any header arrived
FetchRejects(r) ==
  /\ pc[r] = "headers"
  /\ Returned(r, Null, FALSE)

\* the timer of timeoutFetch fires: controller.abort() makes fetch reject
TimerFires(r) ==
  /\ pc[r] = "headers"
  /\ elapsed[r] >= HTTP_TIMEOUT
  /\ Returned(r, Null, FALSE)

\* r.json() resolves to the JSON value j
BodyArrives(r, j) ==
  /\ pc[r] = "body"
  /\ Returned(r, IF pos[r].tier = 3 THEN catalogResult(j) ELSE resourceResult(j),
              ~notOk[r])

\* r.json() rejects: the body is no JSON, or the connection broke
BodyFails(r) ==
  /\ pc[r] = "body"
  /\ Returned(r, Null, FALSE)

\* the clock advances by one tick; a timer that is due fires first
Tick ==
  /\ now < MaxTime
  /\ \A r \in Reqs : pc[r] = "headers" => elapsed[r] < HTTP_TIMEOUT
  /\ now' = now + 1
  /\ elapsed' = [r \in Reqs |->
                   IF InFlight(r) /\ elapsed[r] <= HTTP_TIMEOUT
                   THEN elapsed[r] + 1 ELSE elapsed[r]]
  /\ UNCHANGED <<cache, pc, query, river, pos, records, notOk, response,
                 nresp, calls, settled, src, wrote, first200, store, eval>>

Next ==
  \/ \E r \in Reqs, qv \in Queries : Arrive(r, qv)
  \/ \E r \in Reqs, ok \in BOOLEAN : HeadersArrive(r, ok)
  \/ \E r \in Reqs : FetchRejects(r)
  \/ \E r \in Reqs : TimerFires(r)
  \/ \E r \in Reqs, j \in JsonBodies : BodyArrives(r, j)
  \/ \E r \in Reqs : BodyFails(r)
  \/ Tick

Spec == Init /\ [][Next]_vars

(* ------------- requests that run one after another --------------------- *)
\* a request arrives while no other request is being handled
SeqArrive(r, qv) ==
  /\ \A o \in Reqs : ~InFlight(o)
  /\ Arrive(r, qv)

SeqNext ==
  \/ \E r \in Reqs, qv \in Queries : SeqArrive(r, qv)
  \/ \E r \in Reqs, ok \in BOOLEAN : HeadersArrive(r, ok)
  \/ \E r \in Reqs : FetchRejects(r)
  \/ \E r \in Reqs : TimerFires(r)
  \/ \E r \in Reqs, j \in JsonBodies : BodyArrives(r, j)
  \/ \E r \in Reqs : BodyFails(r)
  \/ Tick

SeqSpec == Init /\ [][SeqNext]_vars

(* -------------------- the cache store on its own ------------------------ *)
\* the values the cache-store specification stores
CacheValues ==
  {[river |-> Rivers[1].name, status |-> "coming_soon"],
   [river |-> Rivers[2].name, status |-> "coming_soon"]}

\* setCache(k, v, ttl)
CSet(k, v, ttl) ==
  /\ cache' = setCache(cache, k, v, ttl, now)
  /\ store' = [op |-> [kind |-> "set", k |-> k, v |-> v, ttl |-> ttl,
                       at |-> now, before |-> cache],
               lastSet |-> [store.lastSet EXCEPT ![k] =
                              [v |-> v, at |-> now, ttl |-> ttl]]]
  /\ UNCHANGED <<now, pc, query, river, pos, records, elapsed, notOk,
                 response, nresp, calls, settled, src, wrote, first200, eval>>

\* getCache(k)
CGet(k) ==
  /\ cache' = getCache(cache, k, now).cache
  /\ store' = [store EXCEPT !.op =
                 [kind |-> "get", k |-> k, ret |-> getCache(cache, k, now).v,
                  at |-> now, before |-> cache]]
  /\ UNCHANGED <<now, pc, query, river, pos, records, elapsed, notOk,
                 response, nresp, calls, settled, src, wrote, first200, eval>>

\* the clock advances
CTick ==
  /\ now < MaxTime
  /\ now' = now + 1
  /\ store' = [store EXCEPT !.op = [kind |-> "tick", before |-> cache]]
  /\ UNCHANGED <<cache, pc, query, river, pos, records, elapsed, notOk,
                 response, nresp, calls, settled, src, wrote, first200, eval>>

CacheNext ==
  \/ \E k \in Keys, v \in CacheValues, ttl \in 0..MaxTtl : CSet(k, v, ttl)
  \/ \E k \in Keys : CGet(k)
  \/ CTick

CacheSpec == Init /\ [][CacheNext]_vars

(* ------------------- the resolver on its own --------------------------- *)
\* the rivers a registry file may hold: ids in lower or upper case, names,
\* alias lists
RiverPool ==
  {[id |-> i, name |-> n, aliases |-> al, dataset_ids |-> <<>>] :
     i \in {<<"g">>, <<"G", "A">>, <<"n">>},
     n \in {<<"G", "a">>, <<"G", "a", "n">>, <<"A", "n">>},
     al \in {<<>>, << <<"G", "A", "N">> >>, << <<"a", "n">>, <<"G", "a">> >>}}

\* what loadRivers may return: the registries of at most n rivers whose ids
\* are unique under case-insensitive comparison
RECURSIVE RegistriesUpTo(_)
RegistriesUpTo(n) ==
  IF n = 0 THEN {<<>>}
  ELSE RegistriesUpTo(n - 1) \cup
       {Append(p[1], p[2]) :
          p \in {x \in RegistriesUpTo(n - 1) \X RiverPool :
                   /\ Len(x[1]) = n - 1
                   /\ \A i \in 1..Len(x[1]) :
                        toLowerCase(x[1][i].id) # toLowerCase(x[2].id)}}

Registries == RegistriesUpTo(MaxRivers)

\* the queries the handler calls findRiver with: trimmed and not empty
ResolverQueries ==
  {<<"g", "a">>, <<"G", "A">>, <<"g", "A", "n">>, <<"a", "n">>,
   <<"n">>, <<"g">>, <<"a">>, <<"z">>}

\* findRiver(q) with the registry file holding rs, evaluated once
FindRiver(rs, q) ==
  /\ eval.fn = "none"
  /\ eval' = [fn |-> "findRiver", rs |-> rs, q |-> q, ret |-> findRiver(rs, q)]
  /\ UNCHANGED <<cache, now, pc, query, river, pos, records, elapsed, notOk,
                 response, nresp, calls, settled, src, wrote, first200, store>>

ResolverNext == \E rs \in Registries, q \in ResolverQueries : FindRiver(rs, q)

ResolverSpec == Init /\ [][ResolverNext]_vars

(* ---------------- the index calculator on its own ---------------------- *)
\* raw field values of an upstream record: missing, null, numbers and texts
RawValues ==
  {Undef, Null, Num(0), Num(60), Num(75), Num(0 - 30),
   Str(<<>>), Str(<<"0">>), Str(<<"7", ".", "0">>), Str(<<"2", " ", "m", "g">>),
   Str(<<"4", "9">>), Str(<<"9", "9", "9">>), Str(<<"1", "e", "3">>),
   Str(<<"-", "1">>), Str(<<"-", "2">>), Str(<<"-", "0", ".", "5">>),
   Str(<<"-", "5">>), Str(<<"1", "2", ".", "5">>), Str(<<"n", "/", "a">>),
   Str(<<"-">>), Str(<<"1", "-", "2">>), Str(<<"<", "1", "0">>),
   Str(<<"4", ".", "5">>)}

\* the values normalization produces: tryNum of the raw values
NormalValues == {tryNum(x) : x \in RawValues}

\* paramIndex(param, value), evaluated once
ParamIndex(param, value) ==
  /\ eval.fn = "none"
  /\ eval' = [fn |-> "paramIndex", param |-> param, value |-> value,
              ret |-> paramIndex(param, value)]
  /\ UNCHANGED <<cache, now, pc, query, river, pos, records, elapsed, notOk,
                 response, nresp, calls, settled, src, wrote, first200, store>>

\* the values of the samples computeRWQI is applied to
SampleValues ==
  {v \in NormalValues : v = Null \/ v.n \in {0 - 50, 0 - 20, 0 - 10, 0, 45, 70}}

\* normalized samples, as mapRecord builds them
NormalSamples ==
  {[DO |-> a, BOD |-> b, pH |-> c, Coliforms |-> e, timestamp |-> Null] :
     a \in SampleValues, b \in SampleValues, c \in SampleValues,
     e \in SampleValues}

\* computeRWQI(p), evaluated once
ComputeRWQI(p) ==
  /\ eval.fn = "none"
  /\ eval' = [fn |-> "computeRWQI", p |-> p, ret |-> computeRWQI(p)]
  /\ UNCHANGED <<cache, now, pc, query, river, pos, records, elapsed, notOk,
                 response, nresp, calls, settled, src, wrote, first200, store>>

IndexNext ==
  \/ \E k \in 1..Len(Params), v \in NormalValues : ParamIndex(Params[k], v)
  \/ \E p \in NormalSamples : ComputeRWQI(p)

IndexSpec == Init /\ [][IndexNext]_vars

(* ------------- normalization and selection on their own ---------------- *)
\* raw records with the fields DO, Dissolved Oxygen, pH and total_coliform
\* missing or holding a number or a text
RowPool ==
  {Row(("DO" :> a) @@ ("Dissolved Oxygen" :> b) @@ ("pH" :> c)
         @@ ("total_coliform" :> e)) :
     a \in {Undef, Num(0), Num(60), Str(<<"n", "/", "a">>)},
     b \in {Undef, Num(50)},
     c \in {Undef, Str(<<"7", ".", "0">>), Str(<<"-">>)},
     e \in {Undef, Str(<<"4", "9">>)}}

\* the raw records of the lists handed to pickBest
SelectionRows ==
  {r \in RowPool : /\ r.f["DO"] \in {Undef, Num(0), Num(60)}
                   /\ r.f["Dissolved Oxygen"] = Undef
                   /\ r.f["pH"] \in {Undef, Str(<<"7", ".", "0">>)}
                   /\ r.f["total_coliform"] = Undef}

\* the lists of at most n raw records
RECURSIVE RowListsUpTo(_)
RowListsUpTo(n) ==
  IF n = 0 THEN {<<>>}
  ELSE RowListsUpTo(n - 1)
         \cup {Append(l, r) : l \in {x \in RowListsUpTo(n - 1) : Len(x) = n - 1},
                              r \in SelectionRows}

RowLists == RowListsUpTo(MaxRows)

\* tryNum(v), evaluated once
TryNum(v) ==
  /\ eval.fn = "none"
  /\ eval' = [fn |-> "tryNum", v |-> v, ret |-> tryNum(v)]
  /\ UNCHANGED <<cache, now, pc, query, river, pos, records, elapsed, notOk,
                 response, nresp, calls, settled, src, wrote, first200, store>>

\* mapRecord(row), evaluated once
MapRecord(row) ==
  /\ eval.fn = "none"
  /\ eval' = [fn |-> "mapRecord", row |-> row, ret |-> mapRecord(row)]
  /\ UNCHANGED <<cache, now, pc, query, river, pos, records, elapsed, notOk,
                 response, nresp, calls, settled, src, wrote, first200, store>>

\* pickBest(rows), evaluated once
PickBest(rows) ==
  /\ eval.fn = "none"
  /\ eval' = [fn |-> "pickBest", rows |-> rows, ret |-> pickBest(rows)]
  /\ UNCHANGED <<cache, now, pc, query, river, pos, records, elapsed, notOk,
                 response, nresp, calls, settled, src, wrote, first200, store>>

SelectNext ==
  \/ \E v \in RawValues : TryNum(v)
  \/ \E row \in RowPool : MapRecord(row)
  \/ \E rows \in RowLists : PickBest(rows)

SelectSpec == Init /\ [][SelectNext]_vars

(* ------------------------- properties ----------------------------------- *)
\* the cache key of the river request r resolved to
KeyOf(r) == cacheKey(Rivers[river[r]])

\* request r performs its cache lookup in this step
Lookup(r) == pc[r] = "idle" /\ pc'[r] # "idle" /\ river'[r] # NoRiver

\* request r is answered in this step
Answered(r) == pc[r] # "done" /\ pc'[r] = "done"

\* every upstream call configured for the river, in the order of the tiers
FullChain(rv) ==
  [i \in 1..Len(rv.dataset_ids) |-> Call(1, i)]
    \o [i \in 1..Len(DATAGOV_DATASET_IDS_GLOBAL) |-> Call(2, i)]
    \o [i \in 1..Len(CatalogUrls) |-> Call(3, i)]

ComingSoon(rv) == [river |-> rv.name, status |-> "coming_soon"]

\* C1: with requests that run one after another, once a request was
\* answered 200 for a river at instant t, a later request for that river
\* whose cache lookup happens at now <= t + TTL is answered with exactly that
\* result and issues no upstream call, and the first request whose lookup
\* happens at now > t + TTL (the entry of t is still the stored one) starts
\* a fresh upstream traversal.
C1_CachingIdempotence ==
  [][\A r \in Reqs : \A k \in Keys :
       (Lookup(r) /\ cacheKey(Rivers[river'[r]]) = k /\ first200[k] # NoFirst)
         => IF now <= first200[k].at + DEFAULT_TTL
            THEN /\ response'[r] = [code |-> 200, body |-> first200[k].v]
                 /\ calls'[r] = <<>>
                 /\ pc'[r] = "done"
            ELSE cache[k] = [v |-> first200[k].v,
                             expires |-> first200[k].at + DEFAULT_TTL]
                   => /\ pc'[r] = "headers"
                      /\ Len(calls'[r]) = 1
                      /\ response'[r] = NoResp]_vars

\* C1 witness: the second request is served the first request's result from
\* the cache, at a later instant and without an upstream call
C1_Witness ==
  /\ pc[1] = "done" /\ wrote[1] = 1
  /\ pc[2] = "done" /\ river[2] = river[1]
  /\ response[2] = response[1] /\ calls[2] = <<>>
  /\ now > first200[KeyOf(1)].at

\* C2: a request that missed the cache answers coming_soon only after every
\* configured tier was tried: the river's dataset ids, the global dataset
\* ids and both catalog queries.
C2_ChainComplete ==
  \A r \in Reqs :
    (pc[r] = "done" /\ calls[r] # <<>> /\ response[r].code = 200
       /\ response[r].body.status = "coming_soon")
      => calls[r] = FullChain(Rivers[river[r]])

\* the calls cs follow the order of the chain: tiers never go back, and
\* within a tier the entries are taken one by one from the first on
InChainOrder(cs) ==
  \A i \in 1..Len(cs) :
    /\ cs[i].idx = 1 + Cardinality({j \in 1..(i - 1) : cs[j].tier = cs[i].tier})
    /\ \A j \in 1..(i - 1) : cs[j].tier <= cs[i].tier

\* C3: the chain short-circuits: calls are issued in the order of the chain,
\* none is issued after the first call that returned a non-empty record
\* list, and the records the handler goes on with are that call's.
C3_ShortCircuit ==
  \A r \in Reqs :
    /\ InChainOrder(calls[r])
    /\ src[r] # NoSrc =>
         /\ calls[r][Len(calls[r])] = Call(src[r].tier, src[r].idx)
         /\ pc[r] = "done"
         /\ records[r] = src[r].x
         /\ response[r].code = 200 =>
              response[r].body.parameters = pickBest(src[r].x.rows)

\* C3 witness: the first dataset id of a river with two ids returned records
\* and the request ended with that single call
C3_Witness ==
  \E r \in Reqs :
    /\ src[r] # NoSrc /\ src[r].tier = 1 /\ src[r].idx = 1
    /\ Len(Rivers[river[r]].dataset_ids) > 1
    /\ calls[r] = <<Call(1, 1)>>
    /\ response[r].code = 200

\* C4: a failed upstream call (non-success response, unparsable body,
\* network error, timeout) counts as "no records" for that call: the records
\* a request goes on with, and a 500 answer, never come from a failed call,
\* and a chain whose calls all ended without records was walked to its end.
C4_FailureIsNoRecords ==
  \A r \in Reqs :
    /\ src[r] # NoSrc => src[r].ok
    /\ (pc[r] = "done" /\ response[r].code = 500) => (src[r] # NoSrc /\ src[r].ok)
    /\ (pc[r] = "done" /\ calls[r] # <<>> /\ records[r] = Null)
         => calls[r] = FullChain(Rivers[river[r]])

\* C5: an upstream call in flight is never older than the timeout bound,
\* whether the handler waits for the headers or for the body.
C5_CallEndsWithinTimeout ==
  \A r \in Reqs : InFlight(r) => elapsed[r] <= HTTP_TIMEOUT

\* C6 as stated: the value stored under a key does not change while the
\* entry has not expired.
C6_EntryStableUntilExpiry ==
  [][\A k \in Keys :
       (cache[k] # NoEntry /\ now <= cache[k].expires)
         => (cache'[k] # NoEntry /\ cache'[k].v = cache[k].v)]_vars

\* C6 amended: an entry that has not expired is changed only by a request
\* that is in flight (it missed the cache before the entry was written) and
\* now ends its own fetch chain, storing its own result; a cache hit leaves
\* the cache as it is and answers with the value stored at that instant.
C6_EntryChangedOnlyByInFlightWriter ==
  [][/\ \A k \in Keys :
          (cache[k] # NoEntry /\ now <= cache[k].expires /\ cache'[k] # cache[k])
            => \E r \in Reqs :
                 /\ InFlight(r) /\ Answered(r)
                 /\ KeyOf(r) = k
                 /\ wrote'[r] = wrote[r] + 1
                 /\ cache'[k] = [v |-> response'[r].body,
                                 expires |-> now + DEFAULT_TTL]
     /\ \A r \in Reqs :
          (Lookup(r) /\ pc'[r] = "done")
            => /\ cache' = cache
               /\ cache[cacheKey(Rivers[river'[r]])] # NoEntry
               /\ response'[r] =
                    [code |-> 200, body |-> cache[cacheKey(Rivers[river'[r]])].v]]_vars

\* C6 witness: the value under a key differs from the one first stored
\* although the first entry had not expired
C6_Witness ==
  \E k \in Keys :
    /\ first200[k] # NoFirst /\ cache[k] # NoEntry
    /\ cache[k].v # first200[k].v
    /\ now <= first200[k].at + DEFAULT_TTL

\* C7: a chain that ends without records is answered 200 with a result of
\* just the river's name and status "coming_soon", which is stored under the
\* river's key with the default TTL; a request that finds such an entry not
\* expired is answered with it and issues no upstream call.
C7_ComingSoonCached ==
  [][\A r \in Reqs :
       /\ (InFlight(r) /\ Answered(r) /\ ~HasLength(records'[r]))
            => /\ response'[r] = [code |-> 200, body |-> ComingSoon(Rivers[river[r]])]
               /\ DOMAIN response'[r].body = {"river", "status"}
               /\ cache'[KeyOf(r)] = [v |-> response'[r].body,
                                      expires |-> now + DEFAULT_TTL]
       /\ (/\ Lookup(r)
           /\ cache[cacheKey(Rivers[river'[r]])] # NoEntry
           /\ cache[cacheKey(Rivers[river'[r]])].v = ComingSoon(Rivers[river'[r]])
           /\ now <= cache[cacheKey(Rivers[river'[r]])].expires)
            => /\ response'[r] = [code |-> 200, body |-> ComingSoon(Rivers[river'[r]])]
               /\ calls'[r] = <<>>]_vars

\* C7 witness: the first request walked the whole chain without records and
\* the second one got the coming_soon result from the cache
C7_Witness ==
  /\ pc[1] = "done" /\ wrote[1] = 1
  /\ calls[1] = FullChain(Rivers[river[1]])
  /\ response[1].body = ComingSoon(Rivers[river[1]])
  /\ pc[2] = "done" /\ calls[2] = <<>>
  /\ response[2] = response[1]

\* C8: a request answered 400, 404 or 500 has called setCache at no point
\* and its answering step leaves the cache as it is; a request answered 400
\* or 404 is a single step, so the whole cache is as before the request.
C8_ErrorsNotCached ==
  [][\A r \in Reqs :
       (Answered(r) /\ response'[r].code \in {400, 404, 500})
         => /\ wrote'[r] = 0
            /\ cache' = cache
            /\ response'[r].code \in {400, 404} => pc[r] = "idle"]_vars

\* C8 witness: a request was answered 500 while the entry another request
\* stored under the same key is still in the cache
C8_Witness ==
  \E r \in Reqs :
    /\ pc[r] = "done" /\ response[r].code = 500
    /\ cache[KeyOf(r)] # NoEntry

\* req.query.river is missing or consists of white space only
Blank(qv) ==
  qv.t = "undef" \/ \A i \in 1..Len(qv.s) : qv.s[i] \in {" ", "\t"}

\* no id, name or alias of the registry contains the query, white space and
\* letter case set aside
Unresolvable(qv) ==
  LET low == toLowerCase(SelectSeq(qv.s, LAMBDA c : c \notin {" ", "\t"}))
  IN \A i \in 1..Len(Rivers) :
       /\ ~includes(Rivers[i].id, low)
       /\ ~includes(toLowerCase(Rivers[i].name), low)
       /\ \A a \in 1..Len(Rivers[i].aliases) :
            ~includes(toLowerCase(Rivers[i].aliases[a]), low)

ErrorBody(b) ==
  /\ DOMAIN b = {"status", "message"}
  /\ b.status = "error"
  /\ b.message # ""

\* C9: a missing or blank river query is answered 400 and a query that
\* resolves to no river 404, each with status "error" and a non-empty
\* message and without an upstream call; a request is answered at most once,
\* and once the handler has returned exactly once, with 200, 400, 404 or 500.
C9_ValidationResponses ==
  \A r \in Reqs :
    /\ (pc[r] # "idle" /\ Blank(query[r]))
         => /\ pc[r] = "done" /\ response[r].code = 400
            /\ ErrorBody(response[r].body) /\ calls[r] = <<>>
    /\ (pc[r] # "idle" /\ ~Blank(query[r])
          /\ (river[r] = NoRiver \/ Unresolvable(query[r])))
         => /\ pc[r] = "done" /\ response[r].code = 404
            /\ ErrorBody(response[r].body) /\ calls[r] = <<>>
    /\ pc[r] = "done" => (nresp[r] = 1 /\ response[r].code \in {200, 400, 404, 500})
    /\ pc[r] # "done" => (nresp[r] = 0 /\ response[r] = NoResp)

\* C9 witness: a query of white space was answered 400 and an unknown name 404
C9_Witness ==
  /\ query[1] = Str(<<" ", " ">>) /\ response[1].code = 400
  /\ query[2] = Str(<<"z", "z">>) /\ response[2].code = 404

\* C10: the cache store.  A get of k returns the value of the most recent
\* set of k if the entry is present and now <= expiresAt (the instant of that
\* set plus its ttl) and leaves the store as it is; otherwise it returns
\* absent and k is not in the store afterwards.  A set of k replaces the
\* entry of k whatever it was.  An entry disappears only by a get of its key
\* at now > expiresAt, and no operation on k touches another key.
C10_CacheStore ==
  LET o == store.op
      Others(k) == \A h \in Keys \ {k} : cache[h] = o.before[h]
  IN /\ \A k \in Keys :
          cache[k] # NoEntry
            => cache[k] = [v |-> store.lastSet[k].v,
                           expires |-> store.lastSet[k].at + store.lastSet[k].ttl]
     /\ o.kind = "get" =>
          /\ Others(o.k)
          /\ IF /\ o.before[o.k] # NoEntry
                /\ o.at <= store.lastSet[o.k].at + store.lastSet[o.k].ttl
             THEN o.ret = store.lastSet[o.k].v /\ cache = o.before
             ELSE o.ret = Null /\ cache[o.k] = NoEntry
     /\ o.kind = "set" =>
          /\ Others(o.k)
          /\ cache[o.k] = [v |-> o.v, expires |-> o.at + o.ttl]
     /\ o.kind = "tick" => cache = o.before
     /\ o.kind \in {"get", "set", "tick"} =>
          \A k \in Keys :
            (o.before[k] # NoEntry /\ cache[k] = NoEntry)
              => (o.kind = "get" /\ o.k = k /\ o.at > o.before[k].expires)

\* C10 witness: a get found the entry of its key expired, returned absent
\* and removed it, the entry of the other key staying in the store
C10_Witness ==
  /\ store.op.kind = "get"
  /\ store.op.before[store.op.k] # NoEntry
  /\ store.op.ret = Null
  /\ cache[store.op.k] = NoEntry
  /\ \E h \in Keys \ {store.op.k} : cache[h] # NoEntry

\* a and b are equal, compared case-insensitively
EqualsIgnoreCase(a, b) == toLowerCase(a) = toLowerCase(b)

\* the query q equals the id or the name of river x, case set aside
MatchesIdOrName(x, q) == EqualsIgnoreCase(q, x.id) \/ EqualsIgnoreCase(q, x.name)

\* the query q equals an alias of river x, case set aside
MatchesAlias(x, q) ==
  \E a \in 1..Len(x.aliases) : EqualsIgnoreCase(q, x.aliases[a])

\* the query q is a part of the name or of an alias of river x, case set aside
ContainedIn(x, q) ==
  \/ includes(toLowerCase(x.name), toLowerCase(q))
  \/ \E a \in 1..Len(x.aliases) :
       includes(toLowerCase(x.aliases[a]), toLowerCase(q))

\* C11: a query that equals the id or the name of a river of the registry,
\* compared case-insensitively, makes findRiver return that river (the first
\* such river in registry order if there are several).
C11_IdOrNameResolves ==
  eval.fn = "findRiver" =>
    \A i \in 1..Len(eval.rs) :
      MatchesIdOrName(eval.rs[i], eval.q)
        => /\ eval.ret # NoRiver
           /\ eval.ret <= i
           /\ MatchesIdOrName(eval.rs[eval.ret], eval.q)

\* C12 as stated: a query that equals an alias of a river, compared
\* case-insensitively, makes findRiver return the aliased river (the first
\* such river in registry order), whatever other rivers the registry holds.
C12_AliasResolves ==
  eval.fn = "findRiver" =>
    \A i \in 1..Len(eval.rs) :
      MatchesAlias(eval.rs[i], eval.q)
        => /\ eval.ret # NoRiver
           /\ eval.ret <= i
           /\ MatchesAlias(eval.rs[eval.ret], eval.q)

\* the exact id/name tier as findRiver has it: the id as stored equals the
\* lower-cased query, or the name equals it case set aside
MatchesTier1(x, q) == x.id = toLowerCase(q) \/ EqualsIgnoreCase(q, x.name)

\* C12 amended: a query that equals an alias of a river and neither the id
\* nor the name of any river, case set aside, makes findRiver return the
\* first river in registry order that declares the alias, whatever names
\* contain the query or are contained in it; a river that matches the exact
\* id/name tier is returned before any river matching by alias; a river that
\* matches by substring only is returned only when no river matches the exact
\* id/name tier or the alias tier; each tier returns its first match.
C12_AliasResolvesAfterIdOrName ==
  eval.fn = "findRiver" =>
    /\ \A i \in 1..Len(eval.rs) :
         (/\ MatchesAlias(eval.rs[i], eval.q)
          /\ \A j \in 1..Len(eval.rs) : ~MatchesIdOrName(eval.rs[j], eval.q))
           => /\ eval.ret # NoRiver
              /\ eval.ret <= i
              /\ MatchesAlias(eval.rs[eval.ret], eval.q)
    /\ \A i \in 1..Len(eval.rs) :
         MatchesTier1(eval.rs[i], eval.q)
           => /\ eval.ret # NoRiver
              /\ eval.ret <= i
              /\ MatchesTier1(eval.rs[eval.ret], eval.q)
    /\ (/\ eval.ret # NoRiver
        /\ ~MatchesTier1(eval.rs[eval.ret], eval.q)
        /\ ~MatchesAlias(eval.rs[eval.ret], eval.q))
         => /\ \A i \in 1..Len(eval.rs) :
                 /\ ~MatchesTier1(eval.rs[i], eval.q)
                 /\ ~MatchesAlias(eval.rs[i], eval.q)
            /\ ContainedIn(eval.rs[eval.ret], eval.q)
            /\ \A i \in 1..(eval.ret - 1) : ~ContainedIn(eval.rs[i], eval.q)

\* C12 witness: the query equals an alias of the second river, the name of
\* the first river is a part of the query, and the second river is returned
C12_Witness ==
  /\ eval.fn = "findRiver" /\ Len(eval.rs) = 2 /\ eval.ret = 2
  /\ MatchesAlias(eval.rs[2], eval.q)
  /\ ~MatchesAlias(eval.rs[1], eval.q)
  /\ includes(toLowerCase(eval.q), toLowerCase(eval.rs[1].name))

\* C13: for each of the four parameters and every value normalization
\* produces, paramIndex returns a sub-index between 0 and 100 (a sub-index is
\* held in thirds of a point), and for an absent value an absent sub-index.
C13_SubIndexInRange ==
  eval.fn = "paramIndex" =>
    IF eval.value = Null THEN eval.ret = Null
    ELSE /\ eval.ret.t = "num"
         /\ eval.ret.n >= 0
         /\ eval.ret.n <= 300

\* the canonical parameters
ParamSet == {Params[i] : i \in 1..Len(Params)}

\* the parameters present in the normalized sample p
Present(p) == {k \in ParamSet : p[k] # Null}

RECURSIVE SumOver(_, _)
SumOver(S, f) ==
  IF S = {} THEN 0
  ELSE LET k == CHOOSE k \in S : TRUE IN f[k] + SumOver(S \ {k}, f)

\* the mean of the sub-indices of the parameters of S in p, weighted by the
\* weights of these parameters, rounded to one decimal: not a number when a
\* sub-index is not a number, infinite when one is infinite
WeightedMean(p, S) ==
  IF \E k \in S : paramIndex(k, p[k]) = NaN THEN NaN
  ELSE IF \E k \in S : paramIndex(k, p[k]) = Infinity THEN Infinity
  ELSE Num(RoundTenths(SumOver(S, [k \in S |-> paramIndex(k, p[k]).n * Weights[k]]),
                       3 * SumOver(S, [k \in S |-> Weights[k]])))

\* C14: computeRWQI on a normalized sample reports a sub-index for exactly the
\* parameters present in the sample; rwqi is the mean of these sub-indices
\* weighted by these parameters' weights only, rounded to one decimal; with no
\* parameter present rwqi and category are null; with one parameter present
\* rwqi equals the sub-index reported for it.
C14_WeightedMeanOfPresent ==
  eval.fn = "computeRWQI" =>
    /\ DOMAIN eval.ret.subindices = Present(eval.p)
    /\ \A k \in Present(eval.p) :
         eval.ret.subindices[k] = Round1(paramIndex(k, eval.p[k]), 3)
    /\ Present(eval.p) = {} => eval.ret.rwqi = Null /\ eval.ret.category = Null
    /\ Present(eval.p) # {} => eval.ret.rwqi = WeightedMean(eval.p, Present(eval.p))
    /\ \A k \in Present(eval.p) :
         Present(eval.p) = {k} => eval.ret.rwqi = eval.ret.subindices[k]

\* a sample with DO and pH only, whose score lies between the two sub-indices
C14_Witness ==
  /\ eval.fn = "computeRWQI"
  /\ Present(eval.p) = {"DO", "pH"}
  /\ eval.ret.rwqi.t = "num"
  /\ eval.ret.subindices["DO"].n < eval.ret.rwqi.n
  /\ eval.ret.rwqi.n < eval.ret.subindices["pH"].n

\* the number of canonical parameters present in the normalized form of row
PresentCount(row) == Cardinality(Present(mapRecord(row)))

\* C15: on a non-empty sequence of raw records pickBest returns the normalized
\* form of a record whose number of present canonical parameters is maximal,
\* and of the first such record of the sequence; on the empty sequence it
\* returns no sample.
C15_FirstMostComplete ==
  eval.fn = "pickBest" =>
    IF eval.rows = <<>> THEN eval.ret = Null
    ELSE \E i \in 1..Len(eval.rows) :
           /\ eval.ret = mapRecord(eval.rows[i])
           /\ \A j \in 1..Len(eval.rows) :
                PresentCount(eval.rows[j]) <= PresentCount(eval.rows[i])
           /\ \A j \in 1..(i - 1) :
                PresentCount(eval.rows[j]) < PresentCount(eval.rows[i])

\* a less complete record first, then two different records that tie on the
\* greatest completeness: the first of the two is returned
C15_Witness ==
  /\ eval.fn = "pickBest"
  /\ Len(eval.rows) = 3
  /\ PresentCount(eval.rows[1]) < PresentCount(eval.rows[2])
  /\ PresentCount(eval.rows[3]) = PresentCount(eval.rows[2])
  /\ mapRecord(eval.rows[3]) # mapRecord(eval.rows[2])
  /\ eval.ret = mapRecord(eval.rows[2])

\* a text with no digit in it
NoDigit(v) == v.t = "str" /\ \A i \in 1..Len(v.s) : ~IsDigit(v.s[i])

\* the field of a raw record a canonical parameter is read from, and the field
\* read in its place
FieldOf ==
  [DO |-> "DO", BOD |-> "BOD", pH |-> "pH", Coliforms |-> "total_coliform"]

AltFieldOf ==
  [DO |-> "Dissolved Oxygen", BOD |-> "Biochemical Oxygen Demand", pH |-> "pH",
   Coliforms |-> "Total Coliform"]

\* C16: numeric coercion turns a raw value that does not parse to a finite
\* number, such as a text with no digit, into an absent value, never into
\* zero, and keeps a value that is a finite number, zero included, as that
\* number in the normalized sample.
C16_CoercionKeepsNumbersOnly ==
  /\ eval.fn = "tryNum" =>
       /\ NoDigit(eval.v) => eval.ret = Null
       /\ eval.v.t = "num" => eval.ret = eval.v
  /\ eval.fn = "mapRecord" =>
       \A k \in ParamSet :
         eval.row.f[AltFieldOf[k]] \in {Undef, eval.row.f[FieldOf[k]]} =>
           /\ NoDigit(eval.row.f[FieldOf[k]]) => eval.ret[k] = Null
           /\ eval.row.f[FieldOf[k]].t = "num" =>
                eval.ret[k] = eval.row.f[FieldOf[k]]

\* C17: the category of a non-null score is found highest threshold first:
\* "Excellent" from 90, else "Good" from 75, else "Moderate" from 50, else
\* "Poor" from 25, else "Bad"; every non-null score has a category, a score of
\* exactly 75.0 is "Good", and category is null exactly when rwqi is null.
C17_Classification ==
  eval.fn = "computeRWQI" =>
    /\ eval.ret.category = Null <=> eval.ret.rwqi = Null
    /\ eval.ret.rwqi # Null =>
         /\ eval.ret.category.c \in {"Excellent", "Good", "Moderate", "Poor", "Bad"}
         /\ eval.ret.rwqi.t = "num" =>
              /\ eval.ret.category.c = "Excellent" <=> eval.ret.rwqi.n >= 900
              /\ eval.ret.category.c = "Good" <=> eval.ret.rwqi.n \in 750..899
              /\ eval.ret.category.c = "Moderate" <=> eval.ret.rwqi.n \in 500..749
              /\ eval.ret.category.c = "Poor" <=> eval.ret.rwqi.n \in 250..499
              /\ eval.ret.category.c = "Bad" <=> eval.ret.rwqi.n < 250

\* a sample whose score is exactly 75.0, classified "Good"
C17_Witness ==
  /\ eval.fn = "computeRWQI"
  /\ eval.ret.rwqi = Num(750)
  /\ eval.ret.category.c = "Good"

\* the call c is an entry of a list the handler of a request for river rv
\* walks: of the river's dataset ids, of the global dataset ids, of the two
\* catalog queries
ChainEntry(rv, c) ==
  \/ c.tier = 1 /\ c.idx \in 1..Len(rv.dataset_ids)
  \/ c.tier = 2 /\ c.idx \in 1..Len(DATAGOV_DATASET_IDS_GLOBAL)
  \/ c.tier = 3 /\ c.idx \in 1..Len(CatalogUrls)

\* C18: within one request at most one upstream call is in flight (issued
\* and not yet returned) at any instant, a call is issued only when the calls
\* before it have returned, and no entry of the river's dataset ids, of the
\* global dataset ids or of the two catalog queries is issued twice, whatever
\* the outcome of its call.
C18_OneCallInFlightNoRetry ==
  \A r \in Reqs :
    /\ Len(settled[r]) <= Len(calls[r])
    /\ Len(calls[r]) - Len(settled[r]) <= 1
    /\ settled[r] = SubSeq(calls[r], 1, Len(settled[r]))
    /\ Len(calls[r]) - Len(settled[r]) = 1 <=> InFlight(r)
    /\ \A i \in 1..Len(calls[r]) :
         /\ ChainEntry(Rivers[river[r]], calls[r][i])
         /\ \A j \in 1..Len(calls[r]) : calls[r][i] = calls[r][j] => i = j

\* a request none of whose calls brought a record, answered when the timer
\* of a call can have fired: every entry of the chain was issued once and
\* has returned
C18_Witness ==
  \E r \in Reqs :
    /\ pc[r] = "done"
    /\ response[r].code = 200
    /\ records[r] = Null
    /\ Len(calls[r]) = Len(Rivers[river[r]].dataset_ids)
                         + Len(DATAGOV_DATASET_IDS_GLOBAL) + Len(CatalogUrls)
    /\ settled[r] = calls[r]
    /\ now >= HTTP_TIMEOUT

\* request r finds no entry, or an expired one, under the key k
Misses(r, k) == Lookup(r) /\ (cache[k] = NoEntry \/ now > cache[k].expires)

\* C19 as stated: of two requests for the same river that both looked up
\* the cache before either wrote it, each writes the cache when it is answered.
C19_BothWrite ==
  [][\A r \in Reqs : \A o \in Reqs \ {r} :
       (/\ InFlight(r) /\ Answered(r)
        /\ river[o] = river[r]
        /\ InFlight(o) \/ (pc[o] = "done" /\ calls[o] # <<>>))
         => wrote'[r] = 1]_vars

\* C19 amended: a request that misses the cache starts its own upstream
\* traversal, also while another request for the same river is in flight;
\* when its chain has finished it writes the cache once if it is answered 200
\* and not at all if it is answered with an error; a write stores the
\* writer's response under the writer's key, and nothing else changes an entry
\* but the removal of an expired entry by a lookup: the entry left is that of
\* the request that wrote last.
C19_NoSingleFlightLastWriterWins ==
  [][/\ \A r \in Reqs :
          /\ Misses(r, cacheKey(Rivers[river'[r]]))
               => /\ pc'[r] = "headers"
                  /\ Len(calls'[r]) = 1
                  /\ wrote'[r] = 0
          /\ wrote'[r] <= 1
          /\ wrote'[r] > wrote[r]
               => /\ InFlight(r) /\ Answered(r)
                  /\ settled'[r] = calls'[r]
                  /\ response'[r].code = 200
                  /\ cache'[KeyOf(r)] = [v |-> response'[r].body,
                                         expires |-> now + DEFAULT_TTL]
          /\ (InFlight(r) /\ Answered(r))
               => wrote'[r] = IF response'[r].code = 200 THEN 1 ELSE 0
     /\ \A k \in Keys :
          cache'[k] # cache[k]
            => \/ \E r \in Reqs : wrote'[r] > wrote[r] /\ KeyOf(r) = k
               \/ /\ cache'[k] = NoEntry
                  /\ \E r \in Reqs : Misses(r, k) /\ cacheKey(Rivers[river'[r]]) = k]_vars

\* both requests resolved to the same river and both wrote the cache, the
\* entry of the first writer not yet expired: the second looked up the cache
\* before the first wrote, and the entry left is the one of the second writer
C19_Witness ==
  /\ river[1] = river[2] /\ river[1] # NoRiver
  /\ wrote[1] = 1 /\ wrote[2] = 1
  /\ pc[1] = "done" /\ pc[2] = "done"
  /\ first200[KeyOf(1)] # NoFirst
  /\ now <= first200[KeyOf(1)].at + DEFAULT_TTL
  /\ \E w \in Reqs :
       /\ w # first200[KeyOf(1)].by
       /\ response[w].body # first200[KeyOf(1)].v
       /\ cache[KeyOf(1)] # NoEntry
       /\ cache[KeyOf(1)].v = response[w].body

\* request r was answered 200 from the cache
ServedFromCache(r) == response[r].code = 200 /\ calls[r] = <<>>

\* C20: every 200 response, from the cache or computed, names in its river
\* field the river the query of its request resolved to; an entry is stored
\* under the key of the river it names and no other, so that a request served
\* from the cache gets what a request for the same river wrote, whatever the
\* queries of the two were.
C20_AnswerNamesResolvedRiver ==
  /\ \A r \in Reqs :
       response[r].code = 200
         => /\ river[r] = Resolved[query[r]].river
            /\ response[r].body.river = Rivers[river[r]].name
  /\ \A k \in Keys : \A i \in 1..Len(Rivers) :
       cache[k] # NoEntry
         => (cache[k].v.river = Rivers[i].name <=> k = cacheKey(Rivers[i]))
  /\ \A r \in Reqs :
       ServedFromCache(r)
         => \E o \in Reqs \ {r} :
              /\ river[o] = river[r]
              /\ wrote[o] = 1
              /\ response[r].body = response[o].body

\* the two requests asked for the same river by different queries (its name,
\* its alias), and one was served the entry the other wrote
C20_Witness ==
  \E r \in Reqs : \E o \in Reqs \ {r} :
    /\ ServedFromCache(r)
    /\ wrote[o] = 1
    /\ query[r] # query[o]
    /\ river[r] = river[o]
    /\ response[r].body.river = Rivers[river[r]].name

====
